---- MODULE Spec2Model ----
(***************************************************************************)
(* Clinic-System-Server: the dual-token authentication and role            *)
(* authorization core (auth controller, token codec, verifyToken and       *)
(* authorization middlewares, staff management handlers, User schema).     *)
(*                                                                         *)
(* Conventions of the model                                                *)
(*  - A signed JWT is a record {form, id, role, iat, exp, sig}; sig is the  *)
(*    HMAC of the payload under a secret, modelled as the tuple            *)
(*    <<secret, id, role, iat, exp>> (a collision-free MAC).  A tampered   *)
(*    token is a payload that no longer matches its sig.                   *)
(*  - A user's _id is the number of its ObjectId; the id claim of a token  *)
(*    is the JSON (hex string) form of that ObjectId, the same number.     *)
(*  - An Authorization header "<scheme> <token>" is the record of its      *)
(*    space-separated segments; split(" ")[1] is its token segment.        *)
(*  - A password is the sequence of the character classes of its           *)
(*    characters: "l" lowercase, "U" uppercase, "d" digit, "s" one of the  *)
(*    symbols of the registration pattern, "o" any other character.        *)
(*  - Time is counted in whole seconds, as jsonwebtoken does.              *)
(***************************************************************************)
EXTENDS Integers, Sequences, FiniteSets, TLC

\* ------------------------------------------------------------------ bounds
NumSlots == 2      \* requests in flight at the same time
MaxTime == 2       \* the clock runs from 0 to MaxTime
MaxUsers == 3      \* ObjectIds the store can hand out

\* ----------------------------------------------------- configuration (env)
JWT_ACCESS_SECRET == "access-secret"
JWT_REFRESH_SECRET == "refresh-secret"
JWT_ACCESS_EXPIRES_IN == 1
JWT_REFRESH_EXPIRES_IN == 2

Slots == 1..NumSlots

\* --------------------------------------------------------------- the inputs
MkEmail(l, d) == [local |-> l, domain |-> d]
EmailA == MkEmail("a", "x.com")
EmailB == MkEmail("b", "x.com")
NoEmail == MkEmail("", "")
Emails == {EmailA, EmailB}

\* "Passw0rd!"
Passw0rd == <<"U", "l", "l", "l", "l", "d", "l", "l", "s">>
\* "Other1!xy": a second well-formed password, used as the wrong password
Other1 == <<"U", "l", "l", "l", "l", "d", "s", "l", "l">>
\* "password123" of the test fixtures: no uppercase letter, no symbol
Weak == <<"l", "l", "l", "l", "l", "l", "l", "l", "d", "d", "d">>

SchemaRoles == {"admin", "doctor", "staff"}

\* ------------------------------------------------------------- token codec
NoToken == [form |-> "none", id |-> 0, role |-> "", iat |-> 0, exp |-> 0, sig |-> <<>>]
Junk == [form |-> "junk", id |-> 0, role |-> "", iat |-> 0, exp |-> 0, sig |-> <<>>]

\* the HMAC of a payload under a secret
Hmac(secret, id, role, iat, exp) == <<secret, id, role, iat, exp>>

\* jwt.sign({id, role}, secret, {expiresIn}) at time t
JwtSign(id, role, secret, expiresIn, t) ==
  [form |-> "jwt", id |-> id, role |-> role, iat |-> t, exp |-> t + expiresIn,
   sig |-> Hmac(secret, id, role, t, t + expiresIn)]

\* an access token whose payload carries the id alone
generateAccessToken_NoRole(userId, userRole, t) ==
  JwtSign(userId, "", JWT_ACCESS_SECRET, JWT_ACCESS_EXPIRES_IN, t)

generateAccessToken(userId, userRole, t) ==
  JwtSign(userId, userRole, JWT_ACCESS_SECRET, JWT_ACCESS_EXPIRES_IN, t)

\* a refresh token signed with the access secret
generateRefreshToken_AccessSecret(userId, userRole, t) ==
  JwtSign(userId, userRole, JWT_ACCESS_SECRET, JWT_REFRESH_EXPIRES_IN, t)

generateRefreshToken(userId, userRole, t) ==
  JwtSign(userId, userRole, JWT_REFRESH_SECRET, JWT_REFRESH_EXPIRES_IN, t)

NoClaims == [id |-> 0, role |-> "", iat |-> 0, exp |-> 0]

\* jwt.verify that never looks at exp
JwtVerifyError_IgnoreExp(token, secret, t) ==
  IF token.form # "jwt" THEN "JsonWebTokenError"
  ELSE IF token.sig # Hmac(secret, token.id, token.role, token.iat, token.exp)
    THEN "JsonWebTokenError"
  ELSE ""

\* jwt.verify that still accepts a token in the second it expires
JwtVerifyError_ExpInclusive(token, secret, t) ==
  IF token.form # "jwt" THEN "JsonWebTokenError"
  ELSE IF token.sig # Hmac(secret, token.id, token.role, token.iat, token.exp)
    THEN "JsonWebTokenError"
  ELSE IF t > token.exp THEN "TokenExpiredError"
  ELSE ""

\* jwt.verify(token, secret) at time t: the error name, "" when it verifies
JwtVerifyError(token, secret, t) ==
  IF token.form # "jwt" THEN "JsonWebTokenError"
  ELSE IF token.sig # Hmac(secret, token.id, token.role, token.iat, token.exp)
    THEN "JsonWebTokenError"
  ELSE IF t >= token.exp THEN "TokenExpiredError"
  ELSE ""

\* the decoded payload jwt.verify hands back
JwtDecoded(token) ==
  [id |-> token.id, role |-> token.role, iat |-> token.iat, exp |-> token.exp]

\* ------------------------------------------------- registration validation
MinNameLen == 3
MaxNameLen == 50
MinPasswordLen == 8

JoiRoles == {"patient", "doctor", "staff", "admin"}

HasClass(p, c) == \E i \in 1..Len(p) : p[i] = c

\* the pattern of registerSchema.password: four lookaheads, then eight or
\* more characters, every one a letter, a digit or a listed symbol
PasswordPattern(p) ==
  /\ HasClass(p, "l")
  /\ HasClass(p, "U")
  /\ HasClass(p, "d")
  /\ HasClass(p, "s")
  /\ \A i \in 1..Len(p) : p[i] \in {"l", "U", "d", "s"}
  /\ Len(p) >= MinPasswordLen

EmailFormat(e) == Len(e.local) > 0 /\ Len(e.domain) > 0

\* registerSchema.validate(body, {abortEarly: false}): every violated rule
registerSchema(body) ==
  (IF Len(body.name) < MinNameLen THEN {"name.min"} ELSE {})
  \cup (IF Len(body.name) > MaxNameLen THEN {"name.max"} ELSE {})
  \cup (IF ~EmailFormat(body.email) THEN {"email"} ELSE {})
  \cup (IF Len(body.password) < MinPasswordLen THEN {"password.min"} ELSE {})
  \cup (IF ~PasswordPattern(body.password) THEN {"password.pattern"} ELSE {})
  \cup (IF body.role \notin JoiRoles THEN {"role"} ELSE {})

\* --------------------------------------------------- the credential store
NoHash == <<>>
\* bcrypt.hash(password, 10)
BcryptHash(p) == <<"bcrypt">> \o p
\* bcrypt.compare(password, hash), for a hash that is a string
BcryptCompare(p, h) == h = BcryptHash(p)

NoUser ==
  [_id |-> 0, name |-> "", email |-> NoEmail, password |-> NoHash,
   google |-> FALSE, role |-> ""]

\* a document that takes the role "doctor" whatever role it is given
NewUser_DefaultRole(id, name, email, password, google, role) ==
  [_id |-> id, name |-> name, email |-> email, password |-> password,
   google |-> google, role |-> "doctor"]

\* new User({...}): google defaults to false
NewUser(id, name, email, password, google, role) ==
  [_id |-> id, name |-> name, email |-> email, password |-> password,
   google |-> google, role |-> role]

\* User.findOne({email}) on a store
FindOne(store, email) ==
  IF \E u \in store : u.email = email
    THEN CHOOSE u \in store : u.email = email
    ELSE NoUser

\* User.findById(id) on a store
FindById(store, id) ==
  IF \E u \in store : u._id = id
    THEN CHOOSE u \in store : u._id = id
    ELSE NoUser

\* a collection without the unique index
DuplicateKey_NoIndex(store, doc) == FALSE

\* the unique index on email: does saving doc collide?
DuplicateKey(store, doc) == \E u \in store : u.email = doc.email

\* UserSchema validation of a document being saved
SchemaValid(doc) ==
  /\ Len(doc.name) > 0
  /\ doc.email # NoEmail
  /\ (doc.password = NoHash => doc.google)
  /\ doc.role \in SchemaRoles

\* document.save(): "ok", or the error it rejects with
SaveOutcome(store, doc) ==
  IF ~SchemaValid(doc) THEN "ValidationError"
  ELSE IF DuplicateKey(store, doc) THEN "E11000"
  ELSE "ok"

\* ------------------------------------------------------------- the state
VARIABLES
  users,    \* the User collection
  nextId,   \* the next ObjectId
  now,      \* the clock, in seconds
  req,      \* per slot: the request that is waiting on the store or the clock
  last,     \* the request the latest step answered, with its response;
            \* Idle when the latest step answered none
  bearer,   \* the access token the client holds
  cookie,   \* the refreshToken cookie of the client's cookie jar
  schedules \* the DoctorSchedule collection: the number of its documents
            \* (a new Schedule() carries the schema's defaults only)

vars == <<users, nextId, now, req, last, bearer, cookie, schedules>>

\* ----------------------------------------------------- requests, responses
NoBody == [name |-> "", email |-> NoEmail, password |-> <<>>, role |-> ""]
NoHeader == [present |-> FALSE, scheme |-> "", token |-> NoToken]
Header(scheme, token) == [present |-> TRUE, scheme |-> scheme, token |-> token]

\* the options of res.cookie("refreshToken", ...)
NoCookieOptions == [httpOnly |-> FALSE, sameSite |-> ""]
\* a cookie that scripts of the page can read
CookieOptions_Readable == [httpOnly |-> FALSE, sameSite |-> "Strict"]
CookieOptions == [httpOnly |-> TRUE, sameSite |-> "Strict"]

\* a response: status, code, message and details of the envelope; the data
\* of the JSON body (accessToken, userId, name, email, role; on a redirect
\* accessToken is the query parameter); the Set-Cookie of refreshToken.
\* details is the text of a string-valued details, "" for null and for the
\* object-valued details
NoRes ==
  [status |-> 0, code |-> "", message |-> "", details |-> "",
   accessToken |-> NoToken, setCookie |-> NoToken,
   cookieOptions |-> NoCookieOptions, userId |-> 0, name |-> "",
   email |-> NoEmail, role |-> "", redirect |-> FALSE]

\* errorHandler: the failure envelope of an error handed to next();
\* a missing code is rendered as null, here ""
errorHandler(statusCode, message, code) ==
  [NoRes EXCEPT !.status = statusCode, !.message = message, !.code = code]

\* sendSuccess(res, statusCode, message, {data})
sendSuccess(statusCode, message) ==
  [NoRes EXCEPT !.status = statusCode, !.message = message]

\* op: the operation; pc: where it waits; user: req.user; verifiedAt: the
\* time verifyToken accepted the token, -1 before; guard: what authorization
\* did ("" not run, "next", "403", "401"); handler: the handler has started;
\* dup0: an Identity with the body's email existed when the request came in;
\* found: what User.findOne answered; again: the request presents the cookie
\* of the refresh that was answered with 200 in the step before; provider:
\* how getTokensFromGoogle ended ("" not called, "ok", "failed")
Idle ==
  [op |-> "idle", pc |-> "idle", body |-> NoBody, header |-> NoHeader,
   cookieIn |-> NoToken, param |-> 0, user |-> NoClaims, verifiedAt |-> -1,
   guard |-> "", handler |-> FALSE, dup0 |-> FALSE, found |-> NoUser,
   again |-> FALSE, provider |-> "", res |-> NoRes]

\* a new request is taken by the lowest slot that is not handling one
Free(s) == req[s].pc = "idle" /\ \A t \in Slots : t < s => req[t].pc # "idle"

\* request r is parked in slot s until its next step
Await(s, r, pc) ==
  /\ req' = [req EXCEPT ![s] = [r EXCEPT !.pc = pc]]
  /\ last' = Idle

\* the response to request r of slot s leaves the server
Done(s, r, response) ==
  /\ req' = [req EXCEPT ![s] = Idle]
  /\ last' = [r EXCEPT !.pc = "done", !.res = response]

\* a token is falsy when there is none (undefined or the empty string)
Falsy(token) == token.form = "none"

\* flip the role of a token's payload, keeping its signature
Tamper(token) ==
  [token EXCEPT !.role = IF token.role = "doctor" THEN "staff" ELSE "doctor"]

\* what a client can put into the refreshToken cookie
CookieChoices ==
  {NoToken, Junk} \cup
  (IF cookie = NoToken THEN {} ELSE {cookie, Tamper(cookie)}) \cup
  (IF bearer = NoToken THEN {} ELSE {bearer})

\* what a client can put into the Authorization header
HeaderChoices ==
  {NoHeader, Header("Bearer", NoToken), Header("Basic", Junk)} \cup
  (IF bearer = NoToken THEN {}
   ELSE {Header("Bearer", bearer), Header("Token", bearer),
         Header("Bearer", Tamper(bearer))}) \cup
  (IF cookie = NoToken THEN {} ELSE {Header("Bearer", cookie)})

RegisterBodies ==
  {[name |-> "Ann", email |-> e, password |-> Passw0rd, role |-> r] :
     e \in Emails, r \in {"doctor", "staff"}}
  \cup {[name |-> "Ann", email |-> EmailB, password |-> Passw0rd, role |-> "patient"],
        [name |-> "Ann", email |-> EmailA, password |-> Weak, role |-> "doctor"],
        [name |-> "Al", email |-> EmailB, password |-> Passw0rd, role |-> "nurse"]}

StaffBodies ==
  {[name |-> "Ann", email |-> e, password |-> Passw0rd, role |-> ""] :
     e \in Emails}
  \cup {[name |-> "Ann", email |-> EmailB, password |-> Weak, role |-> ""]}

LoginPasswords == {Passw0rd, Other1}

Routes == {"POST /doctor/staff", "DELETE /doctor/staff/:userId"}

\* the middleware authorization(allowedRoles) called on its own, outside a
\* route, with the allow-lists ["doctor"], ["admin"] and []
DirectCalls ==
  {"authorization([doctor])", "authorization([admin])", "authorization([])"}

\* the schedule routes that write to the DoctorSchedule collection
ScheduleRoutes == {"POST /schedule", "DELETE /schedule"}

\* the allow-list each route, or direct call, hands to authorization()
AllowedRoles(route) ==
  IF route = "POST /doctor/staff" THEN {"doctor"}
  ELSE IF route = "DELETE /doctor/staff/:userId" THEN {"doctor"}
  ELSE IF route \in ScheduleRoutes THEN {"doctor"}
  ELSE IF route = "authorization([doctor])" THEN {"doctor"}
  ELSE IF route = "authorization([admin])" THEN {"admin"}
  ELSE {}

\* req.user of a direct call: absent, {id} without a role, {id, role}
DirectUsers ==
  {NoClaims} \cup {[NoClaims EXCEPT !.id = 1, !.role = r] : r \in {"", "staff", "doctor"}}

Init ==
  /\ users = {}
  /\ nextId = 1
  /\ now = 0
  /\ req = [s \in Slots |-> Idle]
  /\ last = Idle
  /\ bearer = NoToken
  /\ cookie = NoToken
  /\ schedules = 0

\* ------------------------------------------------------------- the clock
Tick ==
  /\ now < MaxTime
  /\ now' = now + 1
  /\ last' = Idle
  /\ UNCHANGED <<users, nextId, req, bearer, cookie>>
  /\ UNCHANGED schedules

\* ---------------------------------------------------------------- Register
\* Register up to the answer of User.findOne: validation, then the lookup
Register(s, body) ==
  /\ Free(s)
  /\ LET found == FindOne(users, body.email)
         r == [Idle EXCEPT !.op = "register", !.body = body,
                           !.dup0 = (found # NoUser)]
     IN IF registerSchema(body) # {}
          THEN Done(s, r, errorHandler(400, "Validation Error", "VALIDATION_FAILED"))
        ELSE IF found # NoUser
          THEN Done(s, [r EXCEPT !.found = found],
                    errorHandler(400, "User already exists", "USER_EXISTS"))
        ELSE Await(s, r, "save")
  /\ UNCHANGED <<users, nextId, now, bearer, cookie>>
  /\ UNCHANGED schedules

\* a Register that writes the document without validating it and reports
\* the validation error afterwards
RegisterSave_PersistsThenFails(s) ==
  /\ req[s].op = "register" /\ req[s].pc = "save"
  /\ LET b == req[s].body
         doc == NewUser(nextId, b.name, b.email, BcryptHash(b.password), FALSE, b.role)
     IN IF DuplicateKey(users, doc)
          THEN /\ Done(s, req[s],
                       errorHandler(500, "Registration failed", "REGISTRATION_ERROR"))
               /\ UNCHANGED <<users, nextId>>
          ELSE /\ nextId <= MaxUsers
               /\ users' = users \cup {doc}
               /\ nextId' = nextId + 1
               /\ IF SchemaValid(doc)
                    THEN Done(s, req[s],
                              [sendSuccess(201, "User registered successfully") EXCEPT
                                 !.userId = doc._id, !.name = doc.name,
                                 !.email = doc.email])
                    ELSE Done(s, req[s],
                              errorHandler(500, "Registration failed", "REGISTRATION_ERROR"))
  /\ UNCHANGED <<now, bearer, cookie>>
  /\ UNCHANGED schedules

\* Register from bcrypt.hash to the response: newUser.save()
RegisterSave(s) ==
  /\ req[s].op = "register" /\ req[s].pc = "save"
  /\ LET b == req[s].body
         doc == NewUser(nextId, b.name, b.email, BcryptHash(b.password), FALSE, b.role)
     IN IF SaveOutcome(users, doc) = "ok"
          THEN /\ nextId <= MaxUsers
               /\ users' = users \cup {doc}
               /\ nextId' = nextId + 1
               /\ Done(s, req[s],
                       [sendSuccess(201, "User registered successfully") EXCEPT
                          !.userId = doc._id, !.name = doc.name, !.email = doc.email])
          ELSE /\ Done(s, req[s],
                       errorHandler(500, "Registration failed", "REGISTRATION_ERROR"))
               /\ UNCHANGED <<users, nextId>>
  /\ UNCHANGED <<now, bearer, cookie>>
  /\ UNCHANGED schedules

\* ------------------------------------------------------------------- login
\* login: User.findOne, bcrypt.compare, the two tokens, the cookie
login(s, email, password) ==
  /\ Free(s)
  /\ LET user == FindOne(users, email)
         r == [Idle EXCEPT !.op = "login", !.body.email = email,
                           !.body.password = password, !.found = user]
         aTok == generateAccessToken(user._id, user.role, now)
         rTok == generateRefreshToken(user._id, user.role, now)
     IN IF user = NoUser
          THEN /\ Done(s, r, errorHandler(401, "Invalid email or password",
                                          "INVALID_CREDENTIALS"))
               /\ UNCHANGED <<bearer, cookie>>
        ELSE IF user.password = NoHash
          \* bcrypt.compare(password, undefined) rejects; login has no
          \* try/catch, the router hands the rejection to errorHandler
          THEN /\ Done(s, r, errorHandler(500, "Illegal arguments: string, undefined", ""))
               /\ UNCHANGED <<bearer, cookie>>
        ELSE IF ~BcryptCompare(password, user.password)
          THEN /\ Done(s, r, errorHandler(401, "Invalid email or password",
                                          "INVALID_CREDENTIALS"))
               /\ UNCHANGED <<bearer, cookie>>
        ELSE /\ Done(s, r, [sendSuccess(200, "Login successful") EXCEPT
                              !.accessToken = aTok, !.setCookie = rTok,
                              !.cookieOptions = CookieOptions,
                              !.userId = user._id, !.name = user.name,
                              !.role = user.role])
             /\ bearer' = aTok
             /\ cookie' = rTok
  /\ UNCHANGED <<users, nextId, now>>
  /\ UNCHANGED schedules

\* ------------------------------------------------------------ refreshToken
\* a refreshToken that rotates: it sets a new refresh token as the cookie
refreshToken_Rotates(s, cookieIn) ==
  /\ Free(s)
  /\ LET r == [Idle EXCEPT !.op = "refresh", !.cookieIn = cookieIn,
                           !.again = (/\ last.pc = "done" /\ last.op = "refresh"
                                      /\ last.res.status = 200
                                      /\ last.cookieIn = cookieIn)]
         decoded == JwtDecoded(cookieIn)
         newAccessToken == generateAccessToken(decoded.id, decoded.role, now)
         newRefreshToken == generateRefreshToken(decoded.id, decoded.role, now)
     IN IF Falsy(cookieIn)
          THEN /\ Done(s, r, errorHandler(401, "Refresh token is required", ""))
               /\ UNCHANGED <<bearer, cookie>>
        ELSE IF JwtVerifyError(cookieIn, JWT_REFRESH_SECRET, now) # ""
          THEN /\ Done(s, r, errorHandler(403,
                     "Refresh token is expired , your session is ended , login again !", ""))
               /\ UNCHANGED <<bearer, cookie>>
        ELSE /\ Done(s, [r EXCEPT !.user = decoded, !.verifiedAt = now],
                     [sendSuccess(200, "Token refreshed successfully") EXCEPT
                        !.accessToken = newAccessToken,
                        !.setCookie = newRefreshToken,
                        !.cookieOptions = CookieOptions])
             /\ bearer' = newAccessToken
             /\ cookie' = newRefreshToken
  /\ UNCHANGED <<users, nextId, now>>
  /\ UNCHANGED schedules

refreshToken(s, cookieIn) ==
  /\ Free(s)
  /\ LET r == [Idle EXCEPT !.op = "refresh", !.cookieIn = cookieIn,
                           !.again = (/\ last.pc = "done" /\ last.op = "refresh"
                                      /\ last.res.status = 200
                                      /\ last.cookieIn = cookieIn)]
         decoded == JwtDecoded(cookieIn)
         newAccessToken == generateAccessToken(decoded.id, decoded.role, now)
     IN IF Falsy(cookieIn)
          THEN /\ Done(s, r, errorHandler(401, "Refresh token is required", ""))
               /\ UNCHANGED bearer
        ELSE IF JwtVerifyError(cookieIn, JWT_REFRESH_SECRET, now) # ""
          THEN /\ Done(s, r, errorHandler(403,
                     "Refresh token is expired , your session is ended , login again !", ""))
               /\ UNCHANGED bearer
        ELSE /\ Done(s, [r EXCEPT !.user = decoded, !.verifiedAt = now],
                     [sendSuccess(200, "Token refreshed successfully") EXCEPT
                        !.accessToken = newAccessToken])
             /\ bearer' = newAccessToken
  /\ UNCHANGED <<users, nextId, now, cookie>>
  /\ UNCHANGED schedules

\* ---------------------------------------------------------- googleCallback
\* a sign-in tail that puts the default role "doctor" into the tokens
GoogleSignIn_DefaultRole(s, r, finalUser) ==
  LET aTok == generateAccessToken(finalUser._id, "doctor", now)
      rTok == generateRefreshToken(finalUser._id, "doctor", now)
  IN /\ Done(s, r, [NoRes EXCEPT !.status = 302, !.redirect = TRUE,
                                 !.accessToken = aTok, !.setCookie = rTok,
                                 !.cookieOptions = CookieOptions])
     /\ bearer' = aTok
     /\ cookie' = rTok

\* the sign-in tail of googleCallback: tokens, cookie, redirect
GoogleSignIn(s, r, finalUser) ==
  LET aTok == generateAccessToken(finalUser._id, finalUser.role, now)
      rTok == generateRefreshToken(finalUser._id, finalUser.role, now)
  IN /\ Done(s, r, [NoRes EXCEPT !.status = 302, !.redirect = TRUE,
                                 !.accessToken = aTok, !.setCookie = rTok,
                                 !.cookieOptions = CookieOptions])
     /\ bearer' = aTok
     /\ cookie' = rTok

\* a googleCallback that swallows the failure of the code exchange and
\* signs the caller in
googleCallback_IgnoresFailure(s, exchanged, email) ==
  /\ Free(s)
  /\ LET existingUser == FindOne(users, email)
         r == [Idle EXCEPT !.op = "google", !.body.email = email,
                           !.body.name = "Ann", !.dup0 = (existingUser # NoUser),
                           !.provider = IF exchanged THEN "ok" ELSE "failed"]
     IN IF existingUser = NoUser
          THEN /\ Await(s, r, "save")
               /\ UNCHANGED <<bearer, cookie>>
        ELSE GoogleSignIn(s, [r EXCEPT !.found = existingUser], existingUser)
  /\ UNCHANGED <<users, nextId, now>>
  /\ UNCHANGED schedules

\* googleCallback up to the answer of User.findOne: the code exchange
\* (exchanged = FALSE: the provider call fails), then the lookup
googleCallback(s, exchanged, email) ==
  /\ Free(s)
  /\ LET existingUser == FindOne(users, email)
         r == [Idle EXCEPT !.op = "google", !.body.email = email,
                           !.body.name = "Ann", !.dup0 = (existingUser # NoUser),
                           !.provider = IF exchanged THEN "ok" ELSE "failed"]
     IN IF ~exchanged
          \* getTokensFromGoogle rejects; no try/catch: errorHandler, 500
          THEN /\ Done(s, r, errorHandler(500, "Request failed", ""))
               /\ UNCHANGED <<bearer, cookie>>
        ELSE IF existingUser = NoUser
          THEN /\ Await(s, r, "save")
               /\ UNCHANGED <<bearer, cookie>>
        ELSE GoogleSignIn(s, [r EXCEPT !.found = existingUser], existingUser)
  /\ UNCHANGED <<users, nextId, now>>
  /\ UNCHANGED schedules

\* a googleCallback that inserts its document without the google flag and
\* without the schema's validation
googleSave_Unflagged(s) ==
  /\ req[s].op = "google" /\ req[s].pc = "save"
  /\ LET b == req[s].body
         doc == NewUser(nextId, b.name, b.email, NoHash, FALSE, "doctor")
     IN IF ~DuplicateKey(users, doc)
          THEN /\ nextId <= MaxUsers
               /\ users' = users \cup {doc}
               /\ nextId' = nextId + 1
               /\ GoogleSignIn(s, req[s], doc)
          ELSE /\ Done(s, req[s], errorHandler(500, "E11000 duplicate key error", ""))
               /\ UNCHANGED <<users, nextId, bearer, cookie>>
  /\ UNCHANGED now
  /\ UNCHANGED schedules

\* googleCallback from newUser.save() on
googleSave(s) ==
  /\ req[s].op = "google" /\ req[s].pc = "save"
  /\ LET b == req[s].body
         doc == NewUser(nextId, b.name, b.email, NoHash, TRUE, "doctor")
     IN IF SaveOutcome(users, doc) = "ok"
          THEN /\ nextId <= MaxUsers
               /\ users' = users \cup {doc}
               /\ nextId' = nextId + 1
               /\ GoogleSignIn(s, req[s], doc)
          ELSE /\ Done(s, req[s], errorHandler(500, "E11000 duplicate key error", ""))
               /\ UNCHANGED <<users, nextId, bearer, cookie>>
  /\ UNCHANGED now
  /\ UNCHANGED schedules

\* ------------------------------------------------------------- verifyToken
\* verifyToken on an Authorization header at time t: "next", or the status
\* of the error it hands on
\* a verifier that decodes the token without verifying it
verifyToken_DecodeOnly(header, t) ==
  IF Falsy(header.token) THEN "401"
  ELSE IF header.token.form # "jwt" THEN "403"
  ELSE "next"

\* a verifier that also wants the token's Identity to be in the store
verifyToken_ChecksStore(header, t) ==
  IF Falsy(header.token) THEN "401"
  ELSE IF JwtVerifyError(header.token, JWT_ACCESS_SECRET, t) # "" THEN "403"
  ELSE IF FindById(users, header.token.id) = NoUser THEN "403"
  ELSE "next"

verifyToken(header, t) ==
  IF Falsy(header.token) THEN "401"
  ELSE IF JwtVerifyError(header.token, JWT_ACCESS_SECRET, t) # "" THEN "403"
  ELSE "next"

\* a request for a protected route comes in and runs through verifyToken
Verifier(s, route, header) ==
  /\ Free(s)
  /\ LET r == [Idle EXCEPT !.op = route, !.header = header]
         v == verifyToken(header, now)
     IN IF v = "401"
          THEN Done(s, r, errorHandler(401, "Access token is required", ""))
        ELSE IF v = "403"
          THEN Done(s, r, [errorHandler(403, "invalid access token", "") EXCEPT
                             !.details = "Token is  expired or invalid"])
        ELSE Await(s, [r EXCEPT !.user = JwtDecoded(header.token),
                                !.verifiedAt = now], "guard")
  /\ UNCHANGED <<users, nextId, now, bearer, cookie>>
  /\ UNCHANGED schedules

\* ----------------------------------------------------------- authorization
\* a guard that lets every role of a verified token through
authorization_AnyRole(allowedRoles, header, t) ==
  IF ~header.present THEN "401"
  ELSE IF JwtVerifyError(header.token, JWT_ACCESS_SECRET, t) # "" THEN "401"
  ELSE "next"

\* authorization(allowedRoles) on a request at time t: it reads the
\* Authorization header and verifies the token itself
authorization(allowedRoles, header, t) ==
  IF ~header.present THEN "401"
  ELSE IF JwtVerifyError(header.token, JWT_ACCESS_SECRET, t) # "" THEN "401"
  ELSE IF header.token.role = "" \/ header.token.role \notin allowedRoles THEN "403"
  ELSE "next"

Guard(s) ==
  /\ req[s].pc = "guard"
  /\ LET g == authorization(AllowedRoles(req[s].op), req[s].header, now)
         r == [req[s] EXCEPT !.guard = g]
     IN IF g = "401"
          THEN Done(s, r, errorHandler(401, "Authorization failed", "AUTHORIZATION_ERROR"))
        ELSE IF g = "403"
          THEN Done(s, r, errorHandler(403,
                      "You are not authorized to access this resource", "UNAUTHORIZED"))
        ELSE Await(s, r, "handler")
  /\ UNCHANGED <<users, nextId, now, bearer, cookie>>
  /\ UNCHANGED schedules

\* the middleware called with a request of the caller's making, no
\* verifyToken before it: req.user as given, the header as given; a call
\* that continues has no response
authorizationCall(s, call, user, header) ==
  /\ Free(s)
  /\ LET g == authorization(AllowedRoles(call), header, now)
         r == [Idle EXCEPT !.op = call, !.user = user, !.header = header,
                           !.guard = g]
     IN IF g = "401"
          THEN Done(s, r, errorHandler(401, "Authorization failed", "AUTHORIZATION_ERROR"))
        ELSE IF g = "403"
          THEN Done(s, r, errorHandler(403,
                      "You are not authorized to access this resource", "UNAUTHORIZED"))
        ELSE Done(s, r, NoRes)
  /\ UNCHANGED <<users, nextId, now, bearer, cookie>>
  /\ UNCHANGED schedules

\* ------------------------------------------------------------ staff routes
\* createStaffUser up to the answer of User.findOne
createStaffUser(s, body) ==
  /\ req[s].pc = "handler" /\ req[s].op = "POST /doctor/staff"
  /\ LET found == FindOne(users, body.email)
         r == [req[s] EXCEPT !.handler = TRUE, !.body = body,
                             !.dup0 = (found # NoUser)]
     IN IF registerSchema([body EXCEPT !.role = "staff"]) # {}
          THEN Done(s, r, errorHandler(400, "Validation Error", "VALIDATION_FAILED"))
        ELSE IF found # NoUser
          THEN Done(s, [r EXCEPT !.found = found],
                    errorHandler(400, "User already exists", "USER_EXISTS"))
        ELSE Await(s, r, "save")
  /\ UNCHANGED <<users, nextId, now, bearer, cookie>>
  /\ UNCHANGED schedules

\* createStaffUser from bcrypt.hash on: newStaffUser.save()
createStaffSave(s) ==
  /\ req[s].pc = "save" /\ req[s].op = "POST /doctor/staff"
  /\ LET b == req[s].body
         doc == NewUser(nextId, b.name, b.email, BcryptHash(b.password), FALSE, "staff")
     IN IF SaveOutcome(users, doc) = "ok"
          THEN /\ nextId <= MaxUsers
               /\ users' = users \cup {doc}
               /\ nextId' = nextId + 1
               /\ Done(s, req[s], sendSuccess(201, "Staff user created successfully"))
          ELSE /\ Done(s, req[s],
                       errorHandler(500, "Failed to create staff user", "STAFF_CREATION_ERROR"))
               /\ UNCHANGED <<users, nextId>>
  /\ UNCHANGED <<now, bearer, cookie>>
  /\ UNCHANGED schedules

\* deleteUser: User.findByIdAndDelete(userId)
deleteUser(s, userId) ==
  /\ req[s].pc = "handler" /\ req[s].op = "DELETE /doctor/staff/:userId"
  /\ LET deletedUser == FindById(users, userId)
         r == [req[s] EXCEPT !.handler = TRUE, !.param = userId,
                             !.found = deletedUser]
     IN IF deletedUser = NoUser
          THEN /\ Done(s, r, errorHandler(404, "User not found", "USER_NOT_FOUND"))
               /\ UNCHANGED users
          ELSE /\ users' = users \ {deletedUser}
               /\ Done(s, r, sendSuccess(200, "User deleted successfully"))
  /\ UNCHANGED <<nextId, now, bearer, cookie>>
  /\ UNCHANGED schedules

\* --------------------------------------------------------- schedule routes
\* AddSchedule up to the answer of Schedule.find({})
AddSchedule(s) ==
  /\ req[s].pc = "handler" /\ req[s].op = "POST /schedule"
  /\ LET r == [req[s] EXCEPT !.handler = TRUE, !.dup0 = (schedules > 0)]
     IN IF schedules > 0
          THEN Done(s, r, errorHandler(400, "Schedule already exists", "SCHEDULE_EXISTS"))
          ELSE Await(s, r, "save")
  /\ UNCHANGED <<users, nextId, now, bearer, cookie, schedules>>

\* AddSchedule from new Schedule() on: newSchedule.save()
AddScheduleSave(s) ==
  /\ req[s].pc = "save" /\ req[s].op = "POST /schedule"
  /\ schedules' = schedules + 1
  /\ Done(s, req[s], sendSuccess(201, "Schedule created successfully"))
  /\ UNCHANGED <<users, nextId, now, bearer, cookie>>

\* DropSchedule: Schedule.deleteMany({})
DropSchedule(s) ==
  /\ req[s].pc = "handler" /\ req[s].op = "DELETE /schedule"
  /\ LET r == [req[s] EXCEPT !.handler = TRUE, !.dup0 = (schedules > 0)]
     IN IF schedules = 0
          THEN /\ Done(s, r, errorHandler(404, "No schedule found to delete",
                                          "SCHEDULE_NOT_FOUND"))
               /\ UNCHANGED schedules
          ELSE /\ schedules' = 0
               /\ Done(s, r, sendSuccess(200, "Schedule deleted successfully"))
  /\ UNCHANGED <<users, nextId, now, bearer, cookie>>

\* ------------------------------------------------------- specifications
\* One request at a time, in slot 1; the clock may pass between its steps.
Next ==
  \/ Tick
  \/ \E body \in RegisterBodies : Register(1, body)
  \/ RegisterSave(1)
  \/ \E e \in Emails, p \in LoginPasswords : login(1, e, p)
  \/ \E c \in CookieChoices : refreshToken(1, c)
  \/ \E x \in BOOLEAN, e \in Emails : googleCallback(1, x, e)
  \/ googleSave(1)
  \/ \E route \in Routes, h \in HeaderChoices : Verifier(1, route, h)
  \/ Guard(1)
  \/ \E body \in StaffBodies : createStaffUser(1, body)
  \/ createStaffSave(1)
  \/ \E userId \in 1..MaxUsers : deleteUser(1, userId)

Spec == Init /\ [][Next]_vars

\* Concurrent requests that create Identities, in the slots 1..NumSlots, at
\* a fixed time: a doctor has registered and logged in.
Doctor1 == NewUser(1, "Ann", EmailA, BcryptHash(Passw0rd), FALSE, "doctor")

InitRace ==
  /\ users = {Doctor1}
  /\ nextId = 2
  /\ now = 0
  /\ req = [s \in Slots |-> Idle]
  /\ last = Idle
  /\ bearer = generateAccessToken(1, "doctor", 0)
  /\ cookie = generateRefreshToken(1, "doctor", 0)
  /\ schedules = 0

NextRace ==
  \/ \E s \in Slots, body \in RegisterBodies : Register(s, body)
  \/ \E s \in Slots : RegisterSave(s)
  \/ \E s \in Slots, e \in Emails : googleCallback(s, TRUE, e)
  \/ \E s \in Slots : googleSave(s)
  \/ \E s \in Slots : Verifier(s, "POST /doctor/staff", Header("Bearer", bearer))
  \/ \E s \in Slots : Guard(s)
  \/ \E s \in Slots, body \in StaffBodies : createStaffUser(s, body)
  \/ \E s \in Slots : createStaffSave(s)

SpecRace == InitRace /\ [][NextRace]_vars

\* The guard called directly, as its unit tests call it, by a client that
\* can log in again when its token has expired.
NextUnit ==
  \/ Tick
  \/ \E p \in LoginPasswords : login(1, EmailA, p)
  \/ \E call \in DirectCalls, user \in DirectUsers,
        h \in {NoHeader, Header("Bearer", bearer)} :
        authorizationCall(1, call, user, h)

SpecUnit == InitRace /\ [][NextUnit]_vars

\* Concurrent requests of a logged-in doctor on the schedule routes.
NextSchedule ==
  \/ \E s \in Slots, route \in ScheduleRoutes :
       Verifier(s, route, Header("Bearer", bearer))
  \/ \E s \in Slots : Guard(s)
  \/ \E s \in Slots : AddSchedule(s)
  \/ \E s \in Slots : AddScheduleSave(s)
  \/ \E s \in Slots : DropSchedule(s)

SpecSchedule == InitRace /\ [][NextSchedule]_vars

\* Register fed with passwords of every make-up: for each non-empty set of
\* character classes and each length around the minimum, the password that
\* has those classes, in the order l U d s o, padded with its first one.
PwClasses == <<"l", "U", "d", "s", "o">>

PwLens == (MinPasswordLen - 1)..(MinPasswordLen + 1)

PwOf(S, n) ==
  LET q == SelectSeq(PwClasses, LAMBDA c : c \in S)
  IN [i \in 1..n |-> IF i <= Len(q) THEN q[i] ELSE q[1]]

Passwords ==
  {PwOf(S, n) : S \in (SUBSET {"l", "U", "d", "s", "o"}) \ {{}}, n \in PwLens}

NextPassword ==
  \/ \E pw \in Passwords :
       Register(1, [name |-> "Ann", email |-> EmailA, password |-> pw,
                    role |-> "doctor"])
  \/ RegisterSave(1)

SpecPassword == Init /\ [][NextPassword]_vars

\* ================================================================= claims
\* the requests the state holds: those in the slots and the one just answered
Records == {req[s] : s \in Slots} \cup {last}

Answered(op) == last.pc = "done" /\ last.op = op

\* token carries the signature of its own payload under secret
SignedWith(token, secret) ==
  /\ token.form = "jwt"
  /\ token.sig = <<secret, token.id, token.role, token.iat, token.exp>>

Expired(token, t) == t >= token.exp

\* C1: for every request that carries a verified identity with a role, the
\* guard continues to the next handler if and only if that role is a member
\* of the route's allowedRoles.
C1_GuardContinuesIffRoleAllowed ==
  \A r \in Records :
    (r.guard # "" /\ r.user # NoClaims /\ r.user.role # "")
      => ((r.guard = "next") <=> (r.user.role \in AllowedRoles(r.op)))

\* C2: on a route verifyToken, authorization(roles), handler the handler runs
\* only for a token the verifier accepted and a role the guard allowed; while
\* a request is with the verifier or the guard, and in the step that rejects
\* it, the store does not change, and a rejected request never has its
\* handler run.
C2_HandlerReached ==
  \A r \in Records :
    (r.op \in Routes /\ (r.handler \/ r.pc \in {"handler", "save"}))
      => /\ r.verifiedAt >= 0
         /\ SignedWith(r.header.token, JWT_ACCESS_SECRET)
         /\ ~Expired(r.header.token, r.verifiedAt)
         /\ r.user = JwtDecoded(r.header.token)
         /\ r.guard = "next"
         /\ r.user.role \in AllowedRoles(r.op)

C2_RejectedIsTerminal ==
  /\ (last'.pc = "done" /\ last'.op \in Routes /\ last'.res.status \in {401, 403})
       => /\ ~last'.handler
          /\ users' = users
          /\ \A s \in Slots : req'[s].pc \notin {"handler", "save"}
  /\ \A s \in Slots :
       (req'[s].op \in Routes /\ req'[s].pc \in {"guard", "handler"})
         => users' = users

C2_VerifierThenGuardThenHandler ==
  []C2_HandlerReached /\ [][C2_RejectedIsTerminal]_vars

\* a staff token on POST /doctor/staff is turned away by the guard
C2_Witness ==
  /\ Answered("POST /doctor/staff")
  /\ last.user.role = "staff"
  /\ last.guard = "403"
  /\ last.res.status = 403
  /\ users # {}

\* C3: no two Identities of the store have the same email, under every
\* interleaving of the lookups and saves of concurrent Register,
\* createStaffUser and googleCallback requests.
C3_EmailUnique ==
  \A u, v \in users : u.email = v.email => u = v

\* a Register whose lookup found nobody has its save refused by the index
C3_Witness ==
  /\ Answered("register")
  /\ ~last.dup0
  /\ last.body.role \in SchemaRoles
  /\ last.res.code = "REGISTRATION_ERROR"
  /\ \E u \in users : u.email = last.body.email

\* C4: a Register with the email of an Identity that exists fails with
\* 400 USER_EXISTS, whatever its name, password and role are.
C4_LaterRegisterIsUserExists ==
  (Answered("register") /\ last.dup0)
    => (last.res.status = 400 /\ last.res.code = "USER_EXISTS")

\* C5: Login with an unknown email and Login with an existing email and a
\* password that is not the Identity's get the same response: 401,
\* "Invalid email or password", INVALID_CREDENTIALS, no cookie.
C5_LoginFailuresAlike ==
  (Answered("login")
     /\ (last.found = NoUser \/ last.found.password # <<"bcrypt">> \o last.body.password))
    => /\ last.res.status = 401
       /\ last.res.message = "Invalid email or password"
       /\ last.res.code = "INVALID_CREDENTIALS"
       /\ last.res.setCookie = NoToken

\* C6: refreshToken answers 401 without a cookie and the one 403 response
\* for a cookie that is expired, tampered or malformed; no failure carries
\* an access token.
RefreshRejected ==
  [NoRes EXCEPT !.status = 403,
     !.message = "Refresh token is expired , your session is ended , login again !"]

C6_RefreshFailures ==
  Answered("refresh") =>
    /\ last.cookieIn.form = "none" =>
         (last.res.status = 401 /\ last.res.accessToken = NoToken)
    /\ (last.cookieIn.form # "none"
          /\ (~SignedWith(last.cookieIn, JWT_REFRESH_SECRET) \/ Expired(last.cookieIn, now)))
         => last.res = RefreshRejected
    /\ last.res.status # 200 => last.res.accessToken = NoToken

\* an expired refresh token of the server's own making is turned away
C6_Witness ==
  /\ Answered("refresh")
  /\ SignedWith(last.cookieIn, JWT_REFRESH_SECRET)
  /\ Expired(last.cookieIn, now)
  /\ last.res = RefreshRejected

\* C7: for a well-formed, unexpired refresh token refreshToken answers 200
\* with an access token that verifies against the access secret and carries
\* the id and role of the refresh token's claims.
C7_RefreshKeepsIdentity ==
  (Answered("refresh")
     /\ SignedWith(last.cookieIn, JWT_REFRESH_SECRET) /\ ~Expired(last.cookieIn, now))
    => /\ last.res.status = 200
       /\ SignedWith(last.res.accessToken, JWT_ACCESS_SECRET)
       /\ ~Expired(last.res.accessToken, now)
       /\ last.res.accessToken.id = last.cookieIn.id
       /\ last.res.accessToken.role = last.cookieIn.role
       /\ last.res.accessToken.role # ""

C7_Witness ==
  /\ Answered("refresh")
  /\ last.res.status = 200
  /\ last.cookieIn = cookie
  /\ now > last.cookieIn.iat

\* C8: no access token verifies against the refresh secret and no refresh
\* token against the access secret: refreshToken answers 403 to an access
\* token in the cookie, verifyToken answers 403 to a refresh token sent as
\* the Bearer token.
C8_TokenClassesApart ==
  /\ bearer # NoToken =>
       \A t \in 0..MaxTime : JwtVerifyError(bearer, JWT_REFRESH_SECRET, t) # ""
  /\ cookie # NoToken =>
       \A t \in 0..MaxTime : JwtVerifyError(cookie, JWT_ACCESS_SECRET, t) # ""
  /\ (Answered("refresh") /\ bearer # NoToken /\ last.cookieIn = bearer)
       => (last.res.status = 403 /\ last.res.accessToken = NoToken)
  /\ \A r \in Records :
       (r.op \in Routes /\ cookie # NoToken /\ r.header.token = cookie)
         => (r.pc = "done" /\ r.res.status = 403 /\ r.user = NoClaims)

\* a refresh token that has not expired is turned away by verifyToken
C8_Witness ==
  /\ last.pc = "done" /\ last.op \in Routes
  /\ cookie # NoToken
  /\ last.header = Header("Bearer", cookie)
  /\ ~Expired(cookie, now)
  /\ last.res.status = 403

\* C9: the token generateAccessToken(id, role) returns verifies against the
\* access secret at every time before its configured expiry, with claims
\* carrying that id and that role, and is rejected at and after the expiry.
C9_AccessTokenRoundTrip ==
  /\ (Answered("login") /\ last.res.status = 200) =>
       LET tok == last.res.accessToken
       IN \A t \in now..(MaxTime + JWT_ACCESS_EXPIRES_IN) :
            IF t < now + JWT_ACCESS_EXPIRES_IN
              THEN /\ verifyToken(Header("Bearer", tok), t) = "next"
                   /\ JwtDecoded(tok).id = last.found._id
                   /\ JwtDecoded(tok).role = last.found.role
              ELSE verifyToken(Header("Bearer", tok), t) = "403"
  /\ \A r \in Records :
       (r.op \in Routes /\ bearer # NoToken /\ r.header.token = bearer) =>
         /\ r.verifiedAt >= 0 =>
              /\ r.verifiedAt < bearer.iat + JWT_ACCESS_EXPIRES_IN
              /\ r.user.id = bearer.id
              /\ r.user.role = bearer.role
         /\ r.verifiedAt < 0 =>
              /\ now >= bearer.iat + JWT_ACCESS_EXPIRES_IN
              /\ r.res.status = 403

\* the client's own access token is turned away once it has expired
C9_Witness ==
  /\ last.pc = "done" /\ last.op \in Routes
  /\ bearer # NoToken
  /\ last.header = Header("Bearer", bearer)
  /\ now >= bearer.iat + JWT_ACCESS_EXPIRES_IN
  /\ last.res.status = 403

\* C10: verifyToken answers 401 to every request whose Authorization header
\* is absent or is not "Bearer <token>"; such a request is never verified,
\* gets no identity and does not continue.
C10_NonBearerIs401 ==
  \A r \in Records :
    (r.op \in Routes
       /\ (~r.header.present \/ r.header.scheme # "Bearer" \/ r.header.token.form = "none"))
      => /\ r.pc = "done"
         /\ r.res.status = 401
         /\ r.user = NoClaims
         /\ r.verifiedAt < 0

\* the request the verifier has just turned away
VerifierAnswered ==
  /\ last.pc = "done" /\ last.op \in Routes
  /\ last.guard = "" /\ ~last.handler

\* the 403 of verifyToken, with the details text given
AccessRejected(details) ==
  [NoRes EXCEPT !.status = 403, !.message = "invalid access token",
                !.details = details]

\* a token is there and fails jwt.verify against the access secret now
AccessVerifyFails(token) ==
  /\ ~Falsy(token)
  /\ (~SignedWith(token, JWT_ACCESS_SECRET) \/ Expired(token, now))

\* every request that has left verifyToken with a token present: one whose
\* token fails is answered by the verifier, one that goes on has a token
\* that verified when the verifier ran
C11_Body(details) ==
  /\ (VerifierAnswered /\ ~Falsy(last.header.token))
       => /\ AccessVerifyFails(last.header.token)
          /\ last.res = AccessRejected(details)
          /\ last.user = NoClaims
          /\ last.verifiedAt < 0
  /\ \A r \in Records :
       (r.op \in Routes /\ ~(r = last /\ VerifierAnswered))
         => /\ SignedWith(r.header.token, JWT_ACCESS_SECRET)
            /\ ~Expired(r.header.token, r.verifiedAt)

VerifierPassed(s) == req[s].op \in Routes /\ req[s].pc = "guard"

C12_Decision ==
  /\ VerifierAnswered =>
       (Falsy(last.header.token) \/ AccessVerifyFails(last.header.token))
  /\ \A s \in Slots : VerifierPassed(s) =>
       /\ SignedWith(req[s].header.token, JWT_ACCESS_SECRET)
       /\ ~Expired(req[s].header.token, req[s].verifiedAt)
       /\ req[s].user.id = req[s].header.token.id
       /\ req[s].user.role = req[s].header.token.role
  /\ Answered("refresh") =>
       ((last.res.status = 200) <=>
          (SignedWith(last.cookieIn, JWT_REFRESH_SECRET) /\ ~Expired(last.cookieIn, now)))

C12_NoStoreWrite ==
  ((last'.pc = "done" /\ last'.op = "refresh")
     \/ (last'.pc = "done" /\ last'.op \in Routes /\ last'.guard = "" /\ ~last'.handler)
     \/ (\E s \in Slots : req'[s].op \in Routes /\ req'[s].pc = "guard"))
    => (users' = users /\ nextId' = nextId)

\* C12: what verifyToken and refreshToken decide follows from the token,
\* the secret and the time alone, whatever the store holds (a token whose
\* Identity has been deleted is accepted with its role until it expires),
\* and neither of the two writes to the store.
C12_TokenDecidesNotStore ==
  []C12_Decision /\ [][C12_NoStoreWrite]_vars

\* verifyToken passes the token of an Identity that is no longer stored
C12_Witness ==
  \E s \in Slots :
    /\ VerifierPassed(s)
    /\ req[s].user.role = "doctor"
    /\ FindById(users, req[s].user.id) = NoUser

C13_NoCookieInResponse ==
  Answered("refresh") =>
    /\ last.res.setCookie = NoToken
    /\ last.res.cookieOptions = NoCookieOptions
    /\ ~SignedWith(last.res.accessToken, JWT_REFRESH_SECRET)
    /\ (last.again /\ ~Expired(last.cookieIn, now)) => last.res.status = 200

C13_CookieKept ==
  (last'.pc = "done" /\ last'.op = "refresh") => cookie' = cookie

\* C13: refreshToken issues no refresh token and neither sets nor clears the
\* refreshToken cookie; a refresh token that has just been used with success
\* is accepted again by the next refresh as long as it has not expired.
C13_RefreshDoesNotRotate ==
  []C13_NoCookieInResponse /\ [][C13_CookieKept]_vars

\* the same cookie is refreshed with success twice in a row
C13_Witness ==
  /\ Answered("refresh")
  /\ last.again
  /\ last.cookieIn = cookie
  /\ last.res.status = 200
  /\ last.res.setCookie = NoToken

\* C14: a refresh token leaves the server only as the refreshToken cookie
\* (HttpOnly, SameSite=Strict) of a successful login or googleCallback; the
\* body of no Register, login or refreshToken response, and no redirect
\* URL, carries a refresh token, and a login that fails sets no cookie.
C14_RefreshTokenOnlyInCookie ==
  last.pc = "done" =>
    /\ ~SignedWith(last.res.accessToken, JWT_REFRESH_SECRET)
    /\ last.res.setCookie # NoToken =>
         /\ (last.op = "login" /\ last.res.status = 200)
              \/ (last.op = "google" /\ last.res.status = 302)
         /\ SignedWith(last.res.setCookie, JWT_REFRESH_SECRET)
         /\ last.res.cookieOptions.httpOnly
         /\ last.res.cookieOptions.sameSite = "Strict"
    /\ (last.op = "login" /\ last.res.status # 200) =>
         last.res.setCookie = NoToken
    /\ last.op \in {"register", "refresh"} => last.res.setCookie = NoToken

\* a login that succeeds: the refresh token in the cookie, not in the body
C14_Witness ==
  /\ Answered("login")
  /\ last.res.status = 200
  /\ SignedWith(last.res.setCookie, JWT_REFRESH_SECRET)
  /\ last.res.cookieOptions.httpOnly
  /\ SignedWith(last.res.accessToken, JWT_ACCESS_SECRET)

\* a login with the email and the password of a stored Identity succeeds
\* and hands out that Identity's id and role, in the body and in both tokens
C15_LoginOfStored ==
  \A u \in users :
    (Answered("login") /\ u.email = last.body.email
       /\ u.password = BcryptHash(last.body.password))
      => /\ last.res.status = 200
         /\ last.res.userId = u._id
         /\ last.res.role = u.role
         /\ SignedWith(last.res.accessToken, JWT_ACCESS_SECRET)
         /\ last.res.accessToken.id = u._id
         /\ last.res.accessToken.role = u.role
         /\ SignedWith(last.res.setCookie, JWT_REFRESH_SECRET)
         /\ last.res.setCookie.id = u._id
         /\ last.res.setCookie.role = u.role

\* a Register answered 201 has stored its email, the hash of its password
\* and its role; a stored Identity is never changed, and is removed by the
\* deleteUser of staff management only
C15_StoredAsRegistered ==
  /\ (last'.pc = "done" /\ last'.op = "register" /\ last'.res.status = 201)
       => \E u \in users' \ users :
            /\ u.email = last'.body.email
            /\ u.password = BcryptHash(last'.body.password)
            /\ u.role = last'.body.role
  /\ \A u \in users :
       \/ u \in users'
       \/ /\ last'.pc = "done" /\ last'.op = "DELETE /doctor/staff/:userId"
          /\ last'.found = u
  /\ \A u \in users' \ users : \A v \in users : v.email # u.email

\* C15: after a Register that succeeded, every later login with its email
\* and password answers 200 with the role given at registration in the body
\* and in both tokens, whatever Register, login, refreshToken, googleCallback,
\* verifyToken and authorization did in between.
C15_LoginAfterRegister ==
  []C15_LoginOfStored /\ [][C15_StoredAsRegistered]_vars

\* the first Identity, registered as staff, logs in after other operations
\* have created Identities
C15_Witness ==
  /\ Answered("login")
  /\ last.res.status = 200
  /\ last.res.userId = 1
  /\ last.res.role = "staff"
  /\ last.res.accessToken.role = "staff"
  /\ Cardinality(users) > 1

\* C16: a Register whose body passes registerSchema and whose email is not
\* registered answers 201 with the id, name and email of the new Identity,
\* and the store then holds exactly one Identity with that email, with the
\* role of the body, google false and a password that is a hash.
C16_ValidRegisterCreates ==
  (Answered("register") /\ registerSchema(last.body) = {} /\ ~last.dup0)
    => /\ last.res.status = 201
       /\ last.res.name = last.body.name
       /\ last.res.email = last.body.email
       /\ \E u \in users :
            /\ u._id = last.res.userId
            /\ u.email = last.body.email
            /\ u.role = last.body.role
            /\ ~u.google
            /\ u.password = BcryptHash(last.body.password)
            /\ u.password # last.body.password
            /\ \A v \in users : v.email = u.email => v = u

\* the request authorization has just turned away with 403
GuardDenied ==
  /\ last.pc = "done"
  /\ last.op \in Routes \cup DirectCalls
  /\ last.guard = "403"

\* C17: a denial of the guard for a role that is present but not in
\* allowedRoles is 403 INSUFFICIENT_PERMISSIONS, "Access denied.
\* Insufficient permissions.".
C17_DenialIsInsufficientPermissions ==
  (GuardDenied /\ last.user.role # "" /\ last.user.role \notin AllowedRoles(last.op))
    => /\ last.res.status = 403
       /\ last.res.code = "INSUFFICIENT_PERMISSIONS"
       /\ last.res.message = "Access denied. Insufficient permissions."

\* C18: the guard on a request without req.user answers 401
\* USER_NOT_AUTHENTICATED and does not continue, for every allowedRoles.
C18_NoIdentityIs401 ==
  (last.pc = "done" /\ last.op \in DirectCalls /\ last.user = NoClaims)
    => /\ last.guard # "next"
       /\ last.res.status = 401
       /\ last.res.code = "USER_NOT_AUTHENTICATED"

\* C19: the guard on a request whose req.user has no role answers 403
\* USER_ROLE_NOT_FOUND and does not continue.
C19_NoRoleIs403 ==
  (last.pc = "done" /\ last.op \in DirectCalls
     /\ last.user # NoClaims /\ last.user.role = "")
    => /\ last.guard # "next"
       /\ last.res.status = 403
       /\ last.res.code = "USER_ROLE_NOT_FOUND"

\* the googleCallback that has just redirected
GoogleSignedIn == Answered("google") /\ last.res.status = 302

C20_TokensOfTheIdentity ==
  GoogleSignedIn =>
    \E u \in users :
      /\ u.email = last.body.email
      /\ \A v \in users : v.email = u.email => v = u
      /\ SignedWith(last.res.accessToken, JWT_ACCESS_SECRET)
      /\ last.res.accessToken.id = u._id
      /\ last.res.accessToken.role = u.role
      /\ SignedWith(last.res.setCookie, JWT_REFRESH_SECRET)
      /\ last.res.setCookie.id = u._id
      /\ last.res.setCookie.role = u.role
      /\ IF last.dup0
           THEN u = last.found
           ELSE u.google /\ u.role = "doctor" /\ u.password = NoHash

C20_Upsert ==
  (last'.pc = "done" /\ last'.op = "google" /\ last'.res.status = 302)
    => IF last'.dup0
         THEN users' = users
         ELSE /\ Cardinality(users') = Cardinality(users) + 1
              /\ users \subseteq users'

\* C20: googleCallback for an email without Identity creates exactly one
\* Identity, google true, role "doctor", no password hash; for an email with
\* an Identity it creates none and leaves that Identity as it is; the two
\* tokens it issues carry the id and the stored role of that Identity.
C20_GoogleUpsert ==
  []C20_TokensOfTheIdentity /\ [][C20_Upsert]_vars

\* a staff Identity with a password signs in through Google and stays staff
C20_Witness ==
  /\ GoogleSignedIn
  /\ last.dup0
  /\ last.found.role = "staff"
  /\ ~last.found.google
  /\ last.found \in users
  /\ last.res.accessToken.role = "staff"

C21_FailureEnvelope ==
  \A r \in Records :
    (r.op = "google" /\ r.provider = "failed")
      => /\ r.pc = "done"
         /\ r.res.status >= 500
         /\ r.res.setCookie = NoToken
         /\ r.res.accessToken = NoToken
         /\ ~r.res.redirect

C21_NothingDone ==
  (last'.pc = "done" /\ last'.op = "google" /\ last'.provider = "failed")
    => /\ users' = users /\ nextId' = nextId
       /\ bearer' = bearer /\ cookie' = cookie
       /\ \A s \in Slots : req'[s].op # "google" \/ req'[s] = req[s]

\* C21: when getTokensFromGoogle fails, googleCallback is answered at once
\* (no second attempt, no later step) with a 5xx failure envelope; it
\* creates no Identity, sets no cookie and does not redirect.
C21_ProviderFailure ==
  []C21_FailureEnvelope /\ [][C21_NothingDone]_vars

\* the exchange fails for an email that has no Identity, and none is made
C21_Witness ==
  /\ Answered("google")
  /\ last.provider = "failed"
  /\ last.res.status = 500
  /\ FindOne(users, last.body.email) = NoUser
  /\ users # {}

AuthOps == {"register", "login", "refresh", "google"}

\* the store changes only in the step that answers with success, and the
\* step that answers an auth operation with a failure leaves the store, the
\* response's tokens and cookie, and the client's tokens as they were
C22_FailureLeavesNoTrace ==
  /\ users' # users =>
       /\ last'.pc = "done"
       /\ last'.res.status \in {200, 201, 302}
  /\ (last'.pc = "done" /\ last'.op \in AuthOps /\ last'.res.status >= 400)
       => /\ users' = users /\ nextId' = nextId
          /\ last'.res.setCookie = NoToken
          /\ last'.res.accessToken = NoToken
          /\ ~last'.res.redirect
          /\ bearer' = bearer /\ cookie' = cookie

\* C22: a Register, login, refreshToken or googleCallback that ends in a
\* failure response, at whatever step, has left the store as it was and has
\* emitted no token and no cookie; no Identity is persisted by a request
\* that reports failure.
C22_NoPartialSuccess ==
  [][C22_FailureLeavesNoTrace]_vars

\* a Register fails in its last step, the save, and nothing is stored
C22_Witness ==
  /\ Answered("register")
  /\ registerSchema(last.body) = {}
  /\ ~last.dup0
  /\ last.res.status = 500
  /\ FindOne(users, last.body.email) = NoUser

C23_Step ==
  (/\ last.pc = "done" /\ last.op = "login" /\ last.res.status = 200
   /\ last'.pc = "done" /\ last'.op = "refresh"
   /\ last'.cookieIn = last.res.setCookie
   /\ last'.res.status = 200)
    => last'.res.accessToken # last.res.accessToken

\* C23: a refreshToken call that presents the cookie a login has just set
\* returns an access token different from the one that login returned,
\* however short the time between the two.
C23_RefreshedTokenDiffers ==
  [][C23_Step]_vars

\* C24: every Identity of the store has a password hash or has the google
\* flag set, after any sequence of Register, createStaffUser and
\* googleCallback.
C24_PasswordOrGoogle ==
  \A u \in users : u.password # NoHash \/ u.google

\* the store holds an Identity made by googleCallback, without a password,
\* next to one with a password
C24_Witness ==
  /\ \E u \in users : u.google /\ u.password = NoHash
  /\ \E u \in users : ~u.google /\ u.role = "staff" /\ u.password # NoHash

\* C25: every failure that Register, login, refreshToken, verifyToken and
\* authorization hand to errorHandler has a message, a status and a code
\* that is not null.
C25_FailureHasCode ==
  (/\ last.pc = "done"
   /\ last.op \in {"register", "login", "refresh"} \cup Routes
   /\ ~last.handler
   /\ last.res.status >= 400)
    => /\ last.res.message # ""
       /\ last.res.code # ""

\* the five rules of the password check, as the validation message lists them
FiveRules(pw) ==
  /\ Len(pw) >= MinPasswordLen
  /\ HasClass(pw, "l")
  /\ HasClass(pw, "U")
  /\ HasClass(pw, "d")
  /\ HasClass(pw, "s")

\* C26: Register answers 400 VALIDATION_FAILED to a body with a valid name,
\* email and role exactly when its password breaks one of the five rules;
\* a password that keeps all five is never turned away, whatever other
\* characters it contains.
C26_FiveRulesDecide ==
  Answered("register") =>
    ((last.res.status = 400 /\ last.res.code = "VALIDATION_FAILED")
       <=> ~FiveRules(last.body.password))

\* C27: a deleteUser that succeeds has removed one Identity, of role staff;
\* a request that names a doctor or an admin, the caller included, deletes
\* nothing.
C27_DeletesStaffOnly ==
  (Answered("DELETE /doctor/staff/:userId") /\ last.found # NoUser)
    => IF last.found.role = "staff"
         THEN last.res.status = 200 /\ last.found \notin users
         ELSE last.res.status # 200 /\ last.found \in users

\* C28: the DoctorSchedule collection never holds more than one document,
\* and an AddSchedule that comes in while one exists is answered 400
\* SCHEDULE_EXISTS, under every interleaving of the find and save steps of
\* concurrent AddSchedule requests.
C28_AtMostOneSchedule ==
  /\ schedules <= 1
  /\ (Answered("POST /schedule") /\ last.dup0)
       => (last.res.status = 400 /\ last.res.code = "SCHEDULE_EXISTS")

\* C29: a login with the email of an Identity made by googleCallback, which
\* has no password hash, fails like a login with an unknown email, whatever
\* the password: 401 INVALID_CREDENTIALS, "Invalid email or password".
C29_OAuthLoginIs401 ==
  (Answered("login") /\ last.found # NoUser /\ last.found.password = NoHash)
    => /\ last.res.status = 401
       /\ last.res.code = "INVALID_CREDENTIALS"
       /\ last.res.message = "Invalid email or password"

\* C30: on a request verifyToken has accepted, the guard, verifying the
\* header's token once more, never answers 401 and continues exactly when
\* the role verifyToken attached is in allowedRoles, also when the token
\* expires between the two verifications.
C30_GuardAgreesWithVerifier ==
  \A r \in Records :
    (r.op \in Routes /\ r.verifiedAt >= 0 /\ r.guard # "")
      => /\ r.guard # "401"
         /\ (r.guard = "next") <=> (r.user.role \in AllowedRoles(r.op))
====
